---- MODULE Spec2Model ----
(***************************************************************************)
(* Application lifecycle of the psychology job portal (src/app.py).        *)
(*                                                                         *)
(* The document store holds the collections `jobs` and `applications`.     *)
(* Every HTTP request and every run of the scheduled sweep is a sequence   *)
(* of single store operations (find_one, count_documents, insert_one,      *)
(* update_one, delete_many).  A request in flight occupies one entry of    *)
(* `reqs` and remembers what it has read so far; when its handler returns, *)
(* the entry holds the outcome until the response is delivered.            *)
(*                                                                         *)
(* Spec serves one request (or one sweep) at a time, so that each handler  *)
(* runs from its first to its last store operation undisturbed.  The       *)
(* specifications whose names end in Race let the handlers of several      *)
(* requests interleave between two store operations.                       *)
(***************************************************************************)
EXTENDS Integers, Sequences, FiniteSets, TLC

\* ------------------------------------------------------------- bounds
MaxJobs      == 1      \* job documents ever created
MaxApps      == 2      \* application documents ever inserted
MaxVacancies == 2      \* largest vacancy count a teacher enters in the job form
MaxInflight  == 2      \* requests being served at the same time
MaxNow       == 96     \* the clock stops here (hours)
TickHours    == 48     \* the clock is observed every TickHours hours

\* ---------------------------------------------------- program constants
DeadlineHours == 48    \* timedelta(hours=48)

Students == {"s1", "s2"}
Teachers == {"t1"}
Users    == Students \cup Teachers

JobIds == 1..MaxJobs
AppIds == 1..MaxApps
Slots  == 1..MaxInflight

\* role of a logged-in user (current_user.role)
Role(u) == IF u \in Students THEN "student" ELSE "teacher"

\* values of absent fields and absent documents
Absent == "<absent>"
NoJob  == [status |-> "<none>"]
NoApp  == [status |-> "<none>"]
Idle   == [op |-> "idle"]

ActiveStatuses == {"pending_resume", "submitted", "approved"}

\* accounts: the seeded ones and those a registration or an import creates
NewAccounts == {"n1", "n2"}
Accounts    == Users \cup NewAccounts
NoUser      == [role |-> "<none>"]
\* a browser session outside the password-change flow
NoSession   == [awaiting_otp |-> FALSE]
\* the name and phone the seeded accounts and the registration form carry
SeedProfile == [name |-> "Ann", phone |-> "11111111"]
\* hash_pw(raw): the stored hash, kept as the password it verifies
HashPw(raw) == <<"bcrypt", raw>>
\* a user document
UserDoc(role, email, sid, p, raw) ==
    [role |-> role, email |-> email, student_id |-> sid,
     name |-> p.name, phone |-> p.phone, pw_hash |-> HashPw(raw)]

VARIABLES
    now,       \* datetime.now(timezone.utc), in hours
    jobs,      \* mongo.db.jobs: job id -> document or NoJob
    jobCount,  \* number of job ids handed out by insert_one
    apps,      \* mongo.db.applications: application id -> document or NoApp
    appCount,  \* number of application ids handed out by insert_one
    reqs,      \* requests in flight: slot -> request state or Idle
    sweep,     \* the scheduler's run of cleanup_deadlines
    users,     \* mongo.db.users: account -> document or NoUser
    userIndexes, \* the fields of users that carry a unique index
    sessions,  \* flask session of each logged-in user: the OTP keys
    posted     \* job id -> the vacancies of the job form last saved for it

vars == <<now, jobs, jobCount, apps, appCount, reqs, sweep,
          users, userIndexes, sessions, posted>>

\* a handler that has returned: the route, the caller's role and the outcome
\* (flash message and redirect), until the response is delivered
Done(op, role, msg) == [op |-> "done", of |-> op, role |-> role, msg |-> msg]

Init ==
    /\ now = 0
    /\ jobs = [j \in JobIds |-> NoJob]
    /\ jobCount = 0
    /\ apps = [a \in AppIds |-> NoApp]
    /\ appCount = 0
    /\ reqs = [s \in Slots |-> Idle]
    /\ sweep = [pc |-> "idle"]
    /\ users = [u \in Accounts |->
                  CASE u = "s1" -> UserDoc("student", "s1@x", "S1", SeedProfile, "initial1")
                    [] u = "s2" -> UserDoc("student", "s2@x", "S2", SeedProfile, "initial1")
                    [] u = "t1" -> UserDoc("teacher", "t1@x", Absent, SeedProfile, "initial1")
                    [] OTHER    -> NoUser]
    /\ userIndexes = {}
    /\ sessions = [u \in Users |-> NoSession]
    /\ posted = [j \in JobIds |-> 0]

\* ------------------------------------------------------------ helpers
ExistingApps == {a \in AppIds : apps[a] # NoApp}
JobExists(j) == j \in JobIds /\ jobs[j] # NoJob

Lowest(S) == CHOOSE a \in S : \A b \in S : a <= b

\* a new request takes the first free entry
FreeSlot(s) == reqs[s] = Idle /\ \A t \in Slots : t < s => reqs[t] # Idle

\* no request is being served and the sweep is not running
Serial == (\A s \in Slots : reqs[s] = Idle) /\ sweep.pc = "idle"

\* the response of a returned handler reaches the browser
Deliver(s) ==
    /\ reqs[s].op = "done"
    /\ reqs' = [reqs EXCEPT ![s] = Idle]
    /\ UNCHANGED <<now, jobs, jobCount, apps, appCount, sweep, users, userIndexes, sessions, posted>>

\* ------------------------------------------------------------- clock
Tick ==
    /\ now + TickHours <= MaxNow
    /\ now' = now + TickHours
    /\ UNCHANGED <<jobs, jobCount, apps, appCount, reqs, sweep, users, userIndexes, sessions, posted>>

\* form.vacancies.data: the vacancy counts a job form carries (the
\* specification's jobs are created with vacancies >= 0)
FormVacancies == 0..MaxVacancies

\* the decorator letting every logged-in user through
LoginOnly(u) == u \in Users

\* teacher_required: the wrapped view runs for teachers only
TeacherRequired(u) == Role(u) = "teacher"

\* --------------------------------------------------------- job posting
\* new_job: a teacher's job form inserts an open job
NewJob(s, u, v) ==
    /\ FreeSlot(s)
    /\ jobCount < MaxJobs
    /\ IF ~TeacherRequired(u)
       THEN /\ reqs' = [reqs EXCEPT ![s] = Done("new_job", Role(u), "teacher_required")]
            /\ UNCHANGED <<jobs, jobCount, posted>>
       ELSE /\ jobs' = [jobs EXCEPT ![jobCount + 1] =
                           [vacancies |-> v, status |-> "open"]]
            /\ jobCount' = jobCount + 1
            /\ posted' = [posted EXCEPT ![jobCount + 1] = v]
            /\ reqs' = [reqs EXCEPT ![s] = Done("new_job", Role(u), "job_created")]
    /\ UNCHANGED <<now, apps, appCount, sweep, users, userIndexes, sessions>>

\* edit_job (POST): the form's vacancies overwrite the stored count
EditJob(s, u, j, v) ==
    /\ FreeSlot(s)
    /\ IF Role(u) # "teacher"
       THEN /\ reqs' = [reqs EXCEPT ![s] = Done("edit_job", Role(u), "teacher_required")]
            /\ UNCHANGED <<jobs, posted>>
       ELSE IF ~JobExists(j)
       THEN /\ reqs' = [reqs EXCEPT ![s] = Done("edit_job", Role(u), "not_found")]
            /\ UNCHANGED <<jobs, posted>>
       ELSE /\ jobs' = [jobs EXCEPT ![j].vacancies = v]
            /\ posted' = [posted EXCEPT ![j] = v]
            /\ reqs' = [reqs EXCEPT ![s] = Done("edit_job", Role(u), "job_updated")]
    /\ UNCHANGED <<now, jobCount, apps, appCount, sweep, users, userIndexes, sessions>>

\* delete_job: jobs.delete_one({"_id": job_id})
DeleteJob(s, u, j) ==
    /\ FreeSlot(s)
    /\ IF ~TeacherRequired(u)
       THEN /\ reqs' = [reqs EXCEPT ![s] = Done("delete_job", Role(u), "teacher_required")]
            /\ UNCHANGED jobs
       ELSE IF ~JobExists(j)
       THEN /\ reqs' = [reqs EXCEPT ![s] = Done("delete_job", Role(u), "not_found")]
            /\ UNCHANGED jobs
       ELSE /\ jobs' = [jobs EXCEPT ![j] = NoJob]
            /\ reqs' = [reqs EXCEPT ![s] = Done("delete_job", Role(u), "job_deleted")]
    /\ UNCHANGED <<now, jobCount, apps, appCount, sweep, users, userIndexes, sessions, posted>>

\* ------------------------------------------------------------- Apply
\* applications.find_one({"user_id": u, "status": {"$in": active_statuses}})
HasActiveApplication(u) ==
    \E a \in ExistingApps : apps[a].user_id = u /\ apps[a].status \in ActiveStatuses

\* applications.count_documents({"job_id": j, "status": {"$in": [...]}})
ApplicationsCount(j) ==
    Cardinality({a \in ExistingApps :
                    apps[a].job_id = j /\ apps[a].status \in ActiveStatuses})

\* requests in flight that have yet to insert their application
PendingInserts ==
    Cardinality({s \in Slots : reqs[s].op = "apply" /\ reqs[s].pc # "decrement"})

\* apply taking the vacancy before it has looked at the caller
ApplyBeginReserving(s, u, j) ==
    /\ FreeSlot(s)
    /\ appCount + PendingInserts < MaxApps
    /\ reqs' = [reqs EXCEPT ![s] =
          IF Role(u) # "student" THEN Done("apply", Role(u), "only_students")
          ELSE IF HasActiveApplication(u) THEN Done("apply", Role(u), "already_active")
          ELSE [op |-> "apply", pc |-> "find_job", user |-> u, job |-> j,
                vacancies |-> 0]]
    /\ jobs' = IF JobExists(j) /\ jobs[j].vacancies > 0
               THEN [jobs EXCEPT ![j].vacancies = @ - 1]
               ELSE jobs
    /\ UNCHANGED <<now, jobCount, apps, appCount, sweep, users, userIndexes, sessions, posted>>

\* apply, up to and including the active-application lookup
ApplyBegin(s, u, j) ==
    /\ FreeSlot(s)
    /\ appCount + PendingInserts < MaxApps
    /\ reqs' = [reqs EXCEPT ![s] =
          IF Role(u) # "student" THEN Done("apply", Role(u), "only_students")
          ELSE IF HasActiveApplication(u) THEN Done("apply", Role(u), "already_active")
          ELSE [op |-> "apply", pc |-> "find_job", user |-> u, job |-> j,
                vacancies |-> 0]]
    /\ UNCHANGED <<now, jobs, jobCount, apps, appCount, sweep, users, userIndexes, sessions, posted>>

\* jobs.find_one({"_id": job_obj_id, "status": "open"})
ApplyFindJob(s) ==
    /\ reqs[s].op = "apply" /\ reqs[s].pc = "find_job"
    /\ LET r == reqs[s] IN
       reqs' = [reqs EXCEPT ![s] =
          IF JobExists(r.job) /\ jobs[r.job].status = "open"
          THEN [r EXCEPT !.pc = "count", !.vacancies = jobs[r.job].vacancies]
          ELSE Done("apply", "student", "job_unavailable")]
    /\ UNCHANGED <<now, jobs, jobCount, apps, appCount, sweep, users, userIndexes, sessions, posted>>

\* the capacity test with > in place of >=
NoVacanciesStrict(count, vacancies) == count > vacancies

\* if applications_count >= job.get("vacancies", 0): no vacancies
NoVacancies(count, vacancies) == count >= vacancies

\* applications.count_documents(...) against the vacancies read before
ApplyCount(s) ==
    /\ reqs[s].op = "apply" /\ reqs[s].pc = "count"
    /\ LET r == reqs[s] IN
       reqs' = [reqs EXCEPT ![s] =
          IF NoVacancies(ApplicationsCount(r.job), r.vacancies)
          THEN Done("apply", "student", "no_vacancies")
          ELSE [r EXCEPT !.pc = "insert"]]
    /\ UNCHANGED <<now, jobs, jobCount, apps, appCount, sweep, users, userIndexes, sessions, posted>>

\* the document of insert_one in apply
NewApplication(u, j) ==
    [job_id |-> j, user_id |-> u,
     applied_at |-> now, resume_deadline |-> now + DeadlineHours,
     status |-> "pending_resume",
     resume_filename |-> Absent, photo_filename |-> Absent,
     teacher_feedback |-> Absent]

\* applications.insert_one({... "status": "pending_resume"})
ApplyInsert(s) ==
    /\ reqs[s].op = "apply" /\ reqs[s].pc = "insert"
    /\ appCount < MaxApps
    /\ apps' = [apps EXCEPT ![appCount + 1] = NewApplication(reqs[s].user, reqs[s].job)]
    /\ appCount' = appCount + 1
    /\ reqs' = [reqs EXCEPT ![s].pc = "decrement"]
    /\ UNCHANGED <<now, jobs, jobCount, sweep, users, userIndexes, sessions, posted>>

\* the $inc without the {"$gt": 0} filter
UnguardedDecrement(js, j) ==
    IF JobExists(j) THEN [js EXCEPT ![j].vacancies = @ - 1] ELSE js

\* the guarded decrement closing the job when it takes the last vacancy
GuardedDecrementClosing(js, j) ==
    IF JobExists(j) /\ js[j].vacancies > 0
    THEN [js EXCEPT ![j].vacancies = @ - 1,
                    ![j].status = IF js[j].vacancies = 1 THEN "closed" ELSE @]
    ELSE js

\* jobs.update_one({"_id": j, "vacancies": {"$gt": 0}}, {"$inc": {"vacancies": -1}})
GuardedDecrement(js, j) ==
    IF JobExists(j) /\ js[j].vacancies > 0
    THEN [js EXCEPT ![j].vacancies = @ - 1]
    ELSE js

\* the guarded decrement that ends apply
ApplyDecrement(s) ==
    /\ reqs[s].op = "apply" /\ reqs[s].pc = "decrement"
    /\ jobs' = GuardedDecrement(jobs, reqs[s].job)
    /\ reqs' = [reqs EXCEPT ![s] = Done("apply", "student", "applied")]
    /\ UNCHANGED <<now, jobCount, apps, appCount, sweep, users, userIndexes, sessions, posted>>

\* ------------------------------------------------------- SubmitResume
\* the two files of an upload form, each reduced to what the handlers look at:
\* "none" no file part, "blank" a blank filename, otherwise the extension
Uploads == {<<"pdf", "png">>, <<"none", "png">>, <<"pdf", "blank">>,
            <<"exe", "png">>, <<"pdf", "exe">>}

\* not resume or not photo or not resume.filename.strip() or not photo.filename.strip()
FilesMissing(f) == f[1] \in {"none", "blank"} \/ f[2] \in {"none", "blank"}

AllowedResume == {"pdf", "doc", "docx"}
AllowedPhoto  == {"jpg", "jpeg", "png"}

\* the status list of upload with "rejected" let in
UploadStatusesWide == {"pending_resume", "corrections_needed", "rejected"}

\* the statuses in which upload lets the owner submit
UploadStatuses == {"pending_resume", "corrections_needed"}

\* current_user.student_id: only student accounts carry one
StudentIdOf(u) == IF u \in Students THEN u ELSE Absent

\* upload, up to the file checks; the files are then saved under names built
\* from the student id, the application id and the extension
UploadBegin(s, u, a, f) ==
    /\ FreeSlot(s)
    /\ reqs' = [reqs EXCEPT ![s] =
          IF apps[a] = NoApp \/ apps[a].user_id # u
          THEN Done("upload", Role(u), "unauthorized")
          ELSE IF apps[a].status \notin UploadStatuses
          THEN Done("upload", Role(u), "cannot_modify")
          ELSE IF FilesMissing(f)
          THEN Done("upload", Role(u), "files_missing")
          ELSE IF f[1] \notin AllowedResume \/ f[2] \notin AllowedPhoto
          THEN Done("upload", Role(u), "bad_file_type")
          ELSE [op |-> "upload", pc |-> "update", role |-> Role(u), app |-> a,
                job |-> apps[a].job_id, files |-> f]]
    /\ UNCHANGED <<now, jobs, jobCount, apps, appCount, sweep, users, userIndexes, sessions, posted>>

\* resume_reupload, then handle_resume_submission up to its file check
ReuploadBegin(s, u, a, f) ==
    /\ FreeSlot(s)
    /\ reqs' = [reqs EXCEPT ![s] =
          IF apps[a] = NoApp \/ apps[a].user_id # u
          THEN Done("reupload", Role(u), "unauthorized")
          ELSE IF apps[a].status # "corrections_needed"
          THEN Done("reupload", Role(u), "cannot_modify")
          ELSE IF FilesMissing(f)
          THEN Done("reupload", Role(u), "files_missing")
          ELSE [op |-> "reupload", pc |-> "update", role |-> Role(u), app |-> a,
                job |-> apps[a].job_id, files |-> f]]
    /\ UNCHANGED <<now, jobs, jobCount, apps, appCount, sweep, users, userIndexes, sessions, posted>>

\* applications.find_one({"student_id": current_user.student_id, "job_id": j}):
\* no application document has a student_id field, and a filter on an absent
\* value matches the documents that lack the field
MatchingApplications(u, j) ==
    {a \in ExistingApps : apps[a].job_id = j /\ StudentIdOf(u) = Absent}

\* upload_resume (keyed by job id), up to its status check
UploadResumeBegin(s, u, j, f) ==
    /\ FreeSlot(s)
    /\ reqs' = [reqs EXCEPT ![s] =
          IF FilesMissing(f)
          THEN Done("upload_resume", Role(u), "files_missing")
          ELSE IF MatchingApplications(u, j) = {}
          THEN Done("upload_resume", Role(u), "no_matching_application")
          ELSE IF apps[Lowest(MatchingApplications(u, j))].status \notin UploadStatuses
          THEN Done("upload_resume", Role(u), "cannot_modify")
          ELSE [op |-> "upload_resume", pc |-> "update", role |-> Role(u),
                app |-> Lowest(MatchingApplications(u, j)), job |-> j, files |-> f]]
    /\ UNCHANGED <<now, jobs, jobCount, apps, appCount, sweep, users, userIndexes, sessions, posted>>

\* the $set of upload with the teacher_feedback entry left out
SubmittedDocFeedbackLeft(doc, f) ==
    [doc EXCEPT !.resume_filename = f[1], !.photo_filename = f[2],
                !.status = "submitted"]

\* the $set of upload and of handle_resume_submission(clear_feedback=True)
SubmittedDoc(doc, f) ==
    [doc EXCEPT !.resume_filename = f[1], !.photo_filename = f[2],
                !.status = "submitted", !.teacher_feedback = ""]

\* the $set of upload_resume: no teacher_feedback
SubmittedDocKeepFeedback(doc, f) ==
    [doc EXCEPT !.resume_filename = f[1], !.photo_filename = f[2],
                !.status = "submitted"]

\* applications.update_one({"_id": app_id}, {"$set": ...}); the job lookup and
\* the mails that follow change no document
SubmitUpdate(s) ==
    /\ reqs[s].op \in {"upload", "reupload", "upload_resume"}
    /\ reqs[s].pc = "update"
    /\ LET r == reqs[s] IN
       /\ apps' = IF apps[r.app] = NoApp THEN apps
                  ELSE IF r.op = "upload_resume"
                  THEN [apps EXCEPT ![r.app] = SubmittedDocKeepFeedback(@, r.files)]
                  ELSE [apps EXCEPT ![r.app] = SubmittedDoc(@, r.files)]
       /\ reqs' = [reqs EXCEPT ![s] = [r EXCEPT !.pc = "mail"]]
    /\ UNCHANGED <<now, jobs, jobCount, appCount, sweep, users, userIndexes, sessions, posted>>

\* the mails of the four routes that send any
Mails == {"admin_resume", "confirmation", "admin_notification", "status"}

\* the mails each route sends once its update is written
MailsOf(op) ==
    CASE op = "upload"        -> {"admin_resume", "confirmation"}
      [] op = "reupload"      -> {"confirmation", "admin_notification"}
      [] op = "upload_resume" -> {"confirmation"}
      [] op = "update_status" -> {"status"}

\* the job lookup for the title, whose job.get raises when the job is gone,
\* then the sends; what was written is undone when a send fails
SubmitMailUndoing(s, failed) ==
    /\ reqs[s].op \in {"upload", "reupload", "upload_resume"}
    /\ reqs[s].pc = "mail"
    /\ failed \subseteq MailsOf(reqs[s].op)
    /\ LET r == reqs[s] IN
       /\ reqs' = [reqs EXCEPT ![s] =
             IF ~JobExists(r.job) THEN Done(r.op, r.role, "server_error")
             ELSE [op |-> r.op, pc |-> "flash", role |-> r.role, app |-> r.app,
                   job |-> r.job, files |-> r.files, failed |-> failed]]
       /\ apps' = IF JobExists(r.job) /\ failed # {} /\ apps[r.app] # NoApp
                  THEN [apps EXCEPT ![r.app].status = "pending_resume",
                                    ![r.app].resume_filename = Absent,
                                    ![r.app].photo_filename = Absent]
                  ELSE apps
    /\ UNCHANGED <<now, jobs, jobCount, appCount, sweep, users, userIndexes, sessions, posted>>

\* the job lookup for the title, whose job.get raises when the job is gone,
\* then the sends: every smtp function returns when mail is unset and
\* catches what its send raises, so the view goes on whichever sends failed
SubmitMail(s, failed) ==
    /\ reqs[s].op \in {"upload", "reupload", "upload_resume"}
    /\ reqs[s].pc = "mail"
    /\ failed \subseteq MailsOf(reqs[s].op)
    /\ LET r == reqs[s] IN
       reqs' = [reqs EXCEPT ![s] =
          IF ~JobExists(r.job) THEN Done(r.op, r.role, "server_error")
          ELSE [op |-> r.op, pc |-> "flash", role |-> r.role, app |-> r.app,
                job |-> r.job, files |-> r.files, failed |-> failed]]
    /\ UNCHANGED <<now, jobs, jobCount, apps, appCount, sweep, users, userIndexes, sessions, posted>>

\* the success flash and the redirect to the dashboard
SubmitFlash(s) ==
    /\ reqs[s].op \in {"upload", "reupload", "upload_resume"}
    /\ reqs[s].pc = "flash"
    /\ reqs' = [reqs EXCEPT ![s] = Done(reqs[s].op, reqs[s].role, "submitted")]
    /\ UNCHANGED <<now, jobs, jobCount, apps, appCount, sweep, users, userIndexes, sessions, posted>>

\* ------------------------------------------------------------- Assess
\* the status values a form can carry: the three of the specification, the
\* spelling the routes accept, and one that is no disposition at all
Decisions == {"approved", "rejected", "corrections_needed", "needs_corrections",
              "pending_resume"}

\* the status values assess_students and update_application_status accept
AcceptedStatuses == {"approved", "rejected", "needs_corrections"}

FeedbackTexts == {" ", "fix formatting "}

\* request.form.get("feedback", "").strip()
Strip(t) ==
    CASE t = " "               -> ""
      [] t = "fix formatting " -> "fix formatting"
      [] OTHER                 -> t

\* {"$set": {"status": status, "teacher_feedback": feedback}} on one document
AssessedDoc(doc, status, feedback) ==
    [doc EXCEPT !.status = status, !.teacher_feedback = feedback]

\* assess_students (POST): one update_one by id
AssessStudents(s, u, a, d, t) ==
    /\ FreeSlot(s)
    /\ IF ~TeacherRequired(u)
       THEN /\ reqs' = [reqs EXCEPT ![s] = Done("assess", Role(u), "teacher_required")]
            /\ UNCHANGED apps
       ELSE IF d \in AcceptedStatuses
       THEN /\ apps' = IF apps[a] = NoApp THEN apps
                       ELSE [apps EXCEPT ![a] = AssessedDoc(@, d, Strip(t))]
            /\ reqs' = [reqs EXCEPT ![s] = Done("assess", Role(u), "updated")]
       ELSE /\ reqs' = [reqs EXCEPT ![s] = Done("assess", Role(u), "invalid")]
            /\ UNCHANGED apps
    /\ UNCHANGED <<now, jobs, jobCount, appCount, sweep, users, userIndexes, sessions, posted>>

\* update_application_status is wrapped in login_required only
UpdateStatusAllowed(u) == u \in Users

\* update_application_status, up to the application lookup
UpdateStatusBegin(s, u, a, d, t) ==
    /\ FreeSlot(s)
    /\ reqs' = [reqs EXCEPT ![s] =
          IF ~UpdateStatusAllowed(u)
          THEN Done("update_status", Role(u), "teacher_required")
          ELSE IF d \notin AcceptedStatuses
          THEN Done("update_status", Role(u), "invalid")
          ELSE IF apps[a] = NoApp
          THEN Done("update_status", Role(u), "not_found")
          ELSE [op |-> "update_status", pc |-> "find_job", role |-> Role(u), app |-> a,
                job |-> apps[a].job_id, status |-> d, feedback |-> Strip(t)]]
    /\ UNCHANGED <<now, jobs, jobCount, apps, appCount, sweep, users, userIndexes, sessions, posted>>

\* the student and job lookups; job['title'] raises when the job is gone
UpdateStatusFindJob(s) ==
    /\ reqs[s].op = "update_status" /\ reqs[s].pc = "find_job"
    /\ reqs' = [reqs EXCEPT ![s] =
          IF JobExists(reqs[s].job)
          THEN [reqs[s] EXCEPT !.pc = "update"]
          ELSE Done("update_status", reqs[s].role, "server_error")]
    /\ UNCHANGED <<now, jobs, jobCount, apps, appCount, sweep, users, userIndexes, sessions, posted>>

\* applications.update_one by id
UpdateStatusUpdate(s) ==
    /\ reqs[s].op = "update_status" /\ reqs[s].pc = "update"
    /\ LET r == reqs[s] IN
       /\ apps' = IF apps[r.app] = NoApp THEN apps
                  ELSE [apps EXCEPT ![r.app] = AssessedDoc(@, r.status, r.feedback)]
       /\ reqs' = [reqs EXCEPT ![s] = [r EXCEPT !.pc = "mail"]]
    /\ UNCHANGED <<now, jobs, jobCount, appCount, sweep, users, userIndexes, sessions, posted>>

\* smtp.send_application_status_email, which catches what its send raises,
\* then the flash and the redirect
UpdateStatusMail(s, failed) ==
    /\ reqs[s].op = "update_status" /\ reqs[s].pc = "mail"
    /\ failed \subseteq MailsOf("update_status")
    /\ LET r == reqs[s] IN
       reqs' = [reqs EXCEPT ![s] =
          [op |-> r.op, pc |-> "flash", role |-> r.role, app |-> r.app,
           job |-> r.job, status |-> r.status, feedback |-> r.feedback,
           failed |-> failed]]
    /\ UNCHANGED <<now, jobs, jobCount, apps, appCount, sweep, users, userIndexes, sessions, posted>>

\* flash("Application updated and student notified.") and the redirect
UpdateStatusFlash(s) ==
    /\ reqs[s].op = "update_status" /\ reqs[s].pc = "flash"
    /\ reqs' = [reqs EXCEPT ![s] = Done("update_status", reqs[s].role, "updated")]
    /\ UNCHANGED <<now, jobs, jobCount, apps, appCount, sweep, users, userIndexes, sessions, posted>>

\* ---------------------------------------------------- ExpireDeadlines
\* the filter with $lte in place of $lt
ExpiredAtDeadline(a) ==
    /\ apps[a] # NoApp
    /\ apps[a].resume_filename = Absent
    /\ apps[a].resume_deadline <= now

\* applications.find({"resume_filename": {"$exists": False},
\*                    "resume_deadline": {"$lt": now_utc}})
Expired(a) ==
    /\ apps[a] # NoApp
    /\ apps[a].resume_filename = Absent
    /\ apps[a].resume_deadline < now

\* cleanup_deadlines: the find; the scheduler runs one instance at a time
SweepFind ==
    /\ sweep.pc = "idle"
    /\ {a \in AppIds : Expired(a)} # {}
    /\ sweep' = [pc |-> "update", todo |-> {a \in AppIds : Expired(a)}]
    /\ UNCHANGED <<now, jobs, jobCount, apps, appCount, reqs, users, userIndexes, sessions, posted>>

\* cleanup_deadlines giving the vacancy back with every update
SweepUpdateRestoring ==
    /\ sweep.pc = "update"
    /\ LET a == Lowest(sweep.todo) IN
       /\ apps' = IF apps[a] = NoApp THEN apps
                  ELSE [apps EXCEPT ![a].status = "rejected_auto"]
       /\ jobs' = IF apps[a] # NoApp /\ JobExists(apps[a].job_id)
                  THEN [jobs EXCEPT ![apps[a].job_id].vacancies = @ + 1]
                  ELSE jobs
       /\ sweep' = IF sweep.todo = {a} THEN [pc |-> "idle"]
                   ELSE [pc |-> "update", todo |-> sweep.todo \ {a}]
    /\ UNCHANGED <<now, jobCount, appCount, reqs, users, userIndexes, sessions, posted>>

\* cleanup_deadlines leaving a note in teacher_feedback with the status
SweepUpdateAnnotating ==
    /\ sweep.pc = "update"
    /\ LET a == Lowest(sweep.todo) IN
       /\ apps' = IF apps[a] = NoApp THEN apps
                  ELSE [apps EXCEPT ![a].status = "rejected_auto",
                                    ![a].teacher_feedback = "deadline passed"]
       /\ sweep' = IF sweep.todo = {a} THEN [pc |-> "idle"]
                   ELSE [pc |-> "update", todo |-> sweep.todo \ {a}]
    /\ UNCHANGED <<now, jobs, jobCount, appCount, reqs, users, userIndexes, sessions, posted>>

\* cleanup_deadlines going through the documents found without writing
SweepUpdateDryRun ==
    /\ sweep.pc = "update"
    /\ LET a == Lowest(sweep.todo) IN
       sweep' = IF sweep.todo = {a} THEN [pc |-> "idle"]
                ELSE [pc |-> "update", todo |-> sweep.todo \ {a}]
    /\ UNCHANGED <<now, jobs, jobCount, apps, appCount, reqs, users, userIndexes, sessions, posted>>

\* cleanup_deadlines: update_one({"_id": doc["_id"]}, {"$set": {"status": "rejected_auto"}})
SweepUpdate ==
    /\ sweep.pc = "update"
    /\ LET a == Lowest(sweep.todo) IN
       /\ apps' = IF apps[a] = NoApp THEN apps
                  ELSE [apps EXCEPT ![a].status = "rejected_auto"]
       /\ sweep' = IF sweep.todo = {a} THEN [pc |-> "idle"]
                   ELSE [pc |-> "update", todo |-> sweep.todo \ {a}]
    /\ UNCHANGED <<now, jobs, jobCount, appCount, reqs, users, userIndexes, sessions, posted>>

\* --------------------------------------------------- ClearApplications
RECURSIVE TallyFrom(_, _)
\* job_id_to_count, in the order the jobs first appear among the documents found
\* (ascending id), each with the number of found documents of that job
TallyFrom(found, seen) ==
    IF found = {} THEN <<>>
    ELSE LET a == Lowest(found)
             j == apps[a].job_id
         IN IF j \in seen THEN TallyFrom(found \ {a}, seen)
            ELSE <<[job |-> j,
                    count |-> Cardinality({b \in found : apps[b].job_id = j})]>>
                 \o TallyFrom(found \ {a}, seen \cup {j})

\* clear_application_bulk, up to the find that builds the tally
ClearBegin(s, u, ids) ==
    /\ FreeSlot(s)
    /\ reqs' = [reqs EXCEPT ![s] =
          IF ~TeacherRequired(u) THEN Done("clear", Role(u), "teacher_required")
          ELSE IF ids = {} THEN Done("clear", Role(u), "none_selected")
          ELSE [op |-> "clear", pc |-> "delete", role |-> Role(u), ids |-> ids,
                tally |-> TallyFrom(ids \cap ExistingApps, {}), deleted |-> 0]]
    /\ UNCHANGED <<now, jobs, jobCount, apps, appCount, sweep, users, userIndexes, sessions, posted>>

\* applications.delete_many({"_id": {"$in": object_ids}})
ClearDelete(s) ==
    /\ reqs[s].op = "clear" /\ reqs[s].pc = "delete"
    /\ LET r == reqs[s]
           gone == r.ids \cap ExistingApps
       IN /\ apps' = [a \in AppIds |-> IF a \in gone THEN NoApp ELSE apps[a]]
          /\ reqs' = [reqs EXCEPT ![s] =
                IF r.tally = <<>> THEN Done("clear", r.role, "cleared")
                ELSE [r EXCEPT !.pc = "inc", !.deleted = Cardinality(gone)]]
    /\ UNCHANGED <<now, jobs, jobCount, appCount, sweep, users, userIndexes, sessions, posted>>

\* the $inc with 1 in place of inc_count
IncVacanciesByOne(js, j, n) ==
    IF JobExists(j) THEN [js EXCEPT ![j].vacancies = @ + 1] ELSE js

\* jobs.update_one({"_id": job_id}, {"$inc": {"vacancies": inc_count}})
IncVacancies(js, j, n) ==
    IF JobExists(j) THEN [js EXCEPT ![j].vacancies = @ + n] ELSE js

\* one turn of the loop over job_id_to_count
ClearInc(s) ==
    /\ reqs[s].op = "clear" /\ reqs[s].pc = "inc"
    /\ LET r == reqs[s]
           h == Head(r.tally)
       IN /\ jobs' = IncVacancies(jobs, h.job, h.count)
          /\ reqs' = [reqs EXCEPT ![s] =
                IF Tail(r.tally) = <<>> THEN Done("clear", r.role, "cleared")
                ELSE [r EXCEPT !.tally = Tail(r.tally)]]
    /\ UNCHANGED <<now, jobCount, apps, appCount, sweep, users, userIndexes, sessions, posted>>

\* ------------------------------------------------------------ accounts
\* what the forms can carry
FormEmails     == {"S1@x", "n@x"}
FormStudentIds == {"s1", "S3"}
Passwords      == {"", "secret12"}
Otps           == {"111111", "222222"}

\* str.lower() and str.upper() on the values above
Lower(e) == IF e = "S1@x" THEN "s1@x" ELSE e
Upper(i) == IF i = "s1" THEN "S1" ELSE i

ExistingUsers == {u \in Accounts : users[u] # NoUser}

\* the write of document d for account u hits a unique index: another
\* document has the same value of an indexed field (a missing student_id is
\* indexed as null)
DuplicateKey(idx, u, d) ==
    \E v \in ExistingUsers \ {u} :
        \/ "email" \in idx /\ users[v].email = d.email
        \/ "student_id" \in idx /\ users[v].student_id = d.student_id

\* insert_one hands out a fresh _id
FreshAccount == IF users["n1"] = NoUser THEN "n1" ELSE "n2"

\* register: the find_one on email or student id
RegisterBegin(s, e, i) ==
    /\ FreeSlot(s)
    /\ reqs' = [reqs EXCEPT ![s] =
          IF \E v \in ExistingUsers : \/ users[v].email = Lower(e)
                                      \/ users[v].student_id = Upper(i)
          THEN Done("register", "anonymous", "already_exists")
          ELSE [op |-> "register", pc |-> "insert", role |-> "anonymous",
                email |-> Lower(e), student_id |-> Upper(i)]]
    /\ UNCHANGED <<now, jobs, jobCount, apps, appCount, sweep, users, userIndexes, sessions, posted>>

\* register: the insert_one, whose exceptions are caught and flashed
RegisterInsert(s) ==
    /\ reqs[s].op = "register" /\ reqs[s].pc = "insert"
    /\ \E u \in NewAccounts : users[u] = NoUser
    /\ LET r == reqs[s]
           d == UserDoc("student", r.email, r.student_id, SeedProfile, "initial1")
       IN IF DuplicateKey(userIndexes, FreshAccount, d)
          THEN /\ reqs' = [reqs EXCEPT ![s] = Done("register", r.role, "error")]
               /\ UNCHANGED users
          ELSE /\ users' = [users EXCEPT ![FreshAccount] = d]
               /\ reqs' = [reqs EXCEPT ![s] = Done("register", r.role, "created")]
    /\ UNCHANGED <<now, jobs, jobCount, apps, appCount, sweep, userIndexes, sessions, posted>>

\* name, phone and password of the profile forms
Profiles == {SeedProfile, [name |-> "Bea", phone |-> "22222222"]}

\* the $set of a profile update without password
Updated(doc, p, e) ==
    [doc EXCEPT !.name = p.name, !.email = e, !.phone = p.phone]

\* the $set of a profile update with password
UpdatedWithPassword(doc, p, e, raw) ==
    [doc EXCEPT !.name = p.name, !.email = e, !.phone = p.phone,
                !.pw_hash = HashPw(raw)]

\* users.update_one({"_id": current_user.id}, {"$set": ...}) leaving document d:
\* nothing is written when a unique index rejects it
WriteUser(u, d) ==
    IF DuplicateKey(userIndexes, u, d) THEN users ELSE [users EXCEPT ![u] = d]

\* edit_profile before an OTP is awaited: without a new password the update
\* is written at once; with one, the form is parked in the session and an
\* OTP is mailed
EditProfile(s, u, p, e, pw, otp) ==
    /\ FreeSlot(s)
    /\ IF Role(u) # "student"
       THEN /\ reqs' = [reqs EXCEPT ![s] = Done("edit_profile", Role(u), "only_students")]
            /\ UNCHANGED <<users, sessions>>
       ELSE IF sessions[u].awaiting_otp
       THEN /\ reqs' = [reqs EXCEPT ![s] = Done("edit_profile", Role(u), "otp_form")]
            /\ UNCHANGED <<users, sessions>>
       ELSE IF pw = ""
       THEN /\ users' = WriteUser(u, Updated(users[u], p, Lower(e)))
            /\ reqs' = [reqs EXCEPT ![s] =
                  IF DuplicateKey(userIndexes, u, Updated(users[u], p, Lower(e)))
                  THEN Done("edit_profile", Role(u), "server_error")
                  ELSE Done("edit_profile", Role(u), "updated")]
            /\ UNCHANGED sessions
       ELSE /\ sessions' = [sessions EXCEPT ![u] =
                  [awaiting_otp |-> TRUE,
                   pending_profile |-> [name |-> p.name, email |-> Lower(e),
                                        phone |-> p.phone, password |-> pw],
                   otp_code |-> otp]]
            /\ reqs' = [reqs EXCEPT ![s] = Done("edit_profile", Role(u), "otp_sent")]
            /\ UNCHANGED users
    /\ UNCHANGED <<now, jobs, jobCount, apps, appCount, sweep, userIndexes, posted>>

\* user_input_otp == session.get('otp_code')
OtpMatches(code, issued) == code = issued

\* the answer to an OTP form, with the user and the code that were posted
OtpDone(u, code, msg) ==
    [op |-> "done", of |-> "verify_otp", role |-> Role(u), msg |-> msg,
     user |-> u, otp |-> code]

\* edit_profile while an OTP is awaited: the posted code is compared with
\* the one in the session; on a match the parked form is written and the
\* three session keys are popped
VerifyOtp(s, u, code) ==
    /\ FreeSlot(s)
    /\ Role(u) = "student"
    /\ sessions[u].awaiting_otp
    /\ LET pending == sessions[u].pending_profile
           d == UpdatedWithPassword(users[u], pending, pending.email, pending.password)
       IN IF ~OtpMatches(code, sessions[u].otp_code)
          THEN /\ reqs' = [reqs EXCEPT ![s] = OtpDone(u, code, "incorrect_otp")]
               /\ UNCHANGED <<users, sessions>>
          ELSE IF DuplicateKey(userIndexes, u, d)
          THEN /\ reqs' = [reqs EXCEPT ![s] = OtpDone(u, code, "server_error")]
               /\ UNCHANGED <<users, sessions>>
          ELSE /\ users' = WriteUser(u, d)
               /\ sessions' = [sessions EXCEPT ![u] = NoSession]
               /\ reqs' = [reqs EXCEPT ![s] = OtpDone(u, code, "updated")]
    /\ UNCHANGED <<now, jobs, jobCount, apps, appCount, sweep, userIndexes, posted>>

\* edit_teacher_profile: the form is written to the teacher's document, the
\* password with it when one is given
EditTeacherProfile(s, u, p, e, pw) ==
    /\ FreeSlot(s)
    /\ LET d == IF pw = "" THEN Updated(users[u], p, Lower(e))
                ELSE UpdatedWithPassword(users[u], p, Lower(e), pw)
       IN IF ~TeacherRequired(u)
          THEN /\ reqs' = [reqs EXCEPT ![s] =
                     Done("edit_teacher_profile", Role(u), "teacher_required")]
               /\ UNCHANGED users
          ELSE /\ users' = WriteUser(u, d)
               /\ reqs' = [reqs EXCEPT ![s] =
                     IF DuplicateKey(userIndexes, u, d)
                     THEN Done("edit_teacher_profile", Role(u), "server_error")
                     ELSE Done("edit_teacher_profile", Role(u), "updated")]
    /\ UNCHANGED <<now, jobs, jobCount, apps, appCount, sweep, userIndexes, sessions, posted>>

\* import_students.py with a one-row CSV: the two create_index calls share a
\* try, so the first that fails on existing duplicates skips what follows;
\* then insert_many, which the indexes that exist can reject
ImportStudents(e, i) ==
    /\ \E u \in NewAccounts : users[u] = NoUser
    /\ LET emailDup == \E v, w \in ExistingUsers : v # w /\ users[v].email = users[w].email
           sidDup   == \E v, w \in ExistingUsers :
                          v # w /\ users[v].student_id = users[w].student_id
           idx == IF emailDup THEN userIndexes
                  ELSE IF sidDup THEN userIndexes \cup {"email"}
                  ELSE userIndexes \cup {"email", "student_id"}
           d == UserDoc("student", Lower(e), Upper(i), SeedProfile, "initial1")
       IN /\ userIndexes' = idx
          /\ users' = IF DuplicateKey(idx, FreshAccount, d) THEN users
                      ELSE [users EXCEPT ![FreshAccount] = d]
    /\ UNCHANGED <<now, jobs, jobCount, apps, appCount, reqs, sweep, sessions, posted>>

\* ------------------------------------------------------ specifications
\* a step of a request already being served, or of the running sweep
Continue ==
    \/ \E s \in Slots : ApplyFindJob(s)
    \/ \E s \in Slots : ApplyCount(s)
    \/ \E s \in Slots : ApplyInsert(s)
    \/ \E s \in Slots : ApplyDecrement(s)
    \/ \E s \in Slots : SubmitUpdate(s)
    \/ \E s \in Slots, failed \in SUBSET Mails : SubmitMail(s, failed)
    \/ \E s \in Slots : SubmitFlash(s)
    \/ \E s \in Slots : UpdateStatusFindJob(s)
    \/ \E s \in Slots : UpdateStatusUpdate(s)
    \/ \E s \in Slots, failed \in SUBSET Mails : UpdateStatusMail(s, failed)
    \/ \E s \in Slots : UpdateStatusFlash(s)
    \/ \E s \in Slots : ClearDelete(s)
    \/ \E s \in Slots : ClearInc(s)
    \/ \E s \in Slots : Deliver(s)
    \/ SweepUpdate

\* the inputs Spec draws: one student applies, every user may call every
\* route; update_application_status is tried with one accepted and one
\* refused status
Applicants     == {"s1"}
StatusForms    == {"approved", "corrections_needed"}
FeedbackForms  == {"fix formatting "}
JobUploads     == {<<"pdf", "png">>, <<"none", "png">>}

\* one request, or one sweep, at a time
Next ==
    \/ Continue
    \/ Serial /\ Tick
    \/ Serial /\ SweepFind
    \/ \E s \in Slots, u \in Users, v \in FormVacancies : Serial /\ NewJob(s, u, v)
    \/ \E s \in Slots, u \in Users, j \in JobIds, v \in FormVacancies :
          Serial /\ EditJob(s, u, j, v)
    \/ \E s \in Slots, u \in Users, j \in JobIds : Serial /\ DeleteJob(s, u, j)
    \/ \E s \in Slots, u \in Applicants \cup Teachers, j \in JobIds :
          Serial /\ ApplyBegin(s, u, j)
    \/ \E s \in Slots, u \in Users, a \in AppIds, f \in Uploads :
          Serial /\ UploadBegin(s, u, a, f)
    \/ \E s \in Slots, u \in Users, a \in AppIds, f \in Uploads :
          Serial /\ ReuploadBegin(s, u, a, f)
    \/ \E s \in Slots, u \in Users, j \in JobIds, f \in JobUploads :
          Serial /\ UploadResumeBegin(s, u, j, f)
    \/ \E s \in Slots, u \in Users, a \in AppIds, d \in Decisions, t \in FeedbackTexts :
          Serial /\ AssessStudents(s, u, a, d, t)
    \/ \E s \in Slots, u \in Users, a \in AppIds, d \in StatusForms, t \in FeedbackForms :
          Serial /\ UpdateStatusBegin(s, u, a, d, t)
    \/ \E s \in Slots, u \in Users, ids \in SUBSET AppIds : Serial /\ ClearBegin(s, u, ids)

Spec == Init /\ [][Next]_vars

\* the application ids a clear form can carry: those handed out so far, of
\* documents that exist or have been deleted since
ListedIds == 1..appCount

\* jobs, Apply and ClearApplications with the requests of up to MaxInflight
\* callers interleaving between any two store operations
ApplyRaceNext ==
    \/ \E s \in Slots, u \in Users, v \in FormVacancies : NewJob(s, u, v)
    \/ \E s \in Slots, u \in Users, j \in JobIds : ApplyBegin(s, u, j)
    \/ \E s \in Slots : ApplyFindJob(s)
    \/ \E s \in Slots : ApplyCount(s)
    \/ \E s \in Slots : ApplyInsert(s)
    \/ \E s \in Slots : ApplyDecrement(s)
    \/ \E s \in Slots, u \in Users, ids \in SUBSET ListedIds : ClearBegin(s, u, ids)
    \/ \E s \in Slots : ClearDelete(s)
    \/ \E s \in Slots : ClearInc(s)
    \/ \E s \in Slots : Deliver(s)

ApplyRace == Init /\ [][ApplyRaceNext]_vars

\* jobs and Apply by every user, served one request after another, with no
\* clear, job edit, assessment or sweep in between
ApplySerialNext ==
    \/ Tick
    \/ \E s \in Slots, u \in Users, v \in FormVacancies : Serial /\ NewJob(s, u, v)
    \/ \E s \in Slots, u \in Users, j \in JobIds : Serial /\ ApplyBegin(s, u, j)
    \/ \E s \in Slots : ApplyFindJob(s)
    \/ \E s \in Slots : ApplyCount(s)
    \/ \E s \in Slots : ApplyInsert(s)
    \/ \E s \in Slots : ApplyDecrement(s)
    \/ \E s \in Slots : Deliver(s)

ApplySerial == Init /\ [][ApplySerialNext]_vars

\* one job, one applicant, and the three submission routes called by every
\* user with every combination of files, one request after another
SubmitSerialNext ==
    \/ \E s \in Slots, u \in Teachers, v \in FormVacancies : Serial /\ NewJob(s, u, v)
    \/ \E s \in Slots, u \in Applicants, j \in JobIds : Serial /\ ApplyBegin(s, u, j)
    \/ \E s \in Slots : ApplyFindJob(s)
    \/ \E s \in Slots : ApplyCount(s)
    \/ \E s \in Slots : ApplyInsert(s)
    \/ \E s \in Slots : ApplyDecrement(s)
    \/ \E s \in Slots, u \in Users, a \in AppIds, f \in Uploads :
          Serial /\ UploadBegin(s, u, a, f)
    \/ \E s \in Slots, u \in Users, a \in AppIds, f \in Uploads :
          Serial /\ ReuploadBegin(s, u, a, f)
    \/ \E s \in Slots, u \in Users, j \in JobIds, f \in Uploads :
          Serial /\ UploadResumeBegin(s, u, j, f)
    \/ \E s \in Slots : SubmitUpdate(s)
    \/ \E s \in Slots, failed \in SUBSET Mails : SubmitMail(s, failed)
    \/ \E s \in Slots : SubmitFlash(s)
    \/ \E s \in Slots : Deliver(s)

SubmitSerial == Init /\ [][SubmitSerialNext]_vars

\* Apply, the owner's upload and the sweep, with the sweep's find and its
\* updates interleaving with the store operations of the requests
SweepRaceNext ==
    \/ Tick
    \/ SweepFind
    \/ SweepUpdate
    \/ \E s \in Slots, u \in Teachers, v \in FormVacancies : NewJob(s, u, v)
    \/ \E s \in Slots, u \in Applicants, j \in JobIds : ApplyBegin(s, u, j)
    \/ \E s \in Slots : ApplyFindJob(s)
    \/ \E s \in Slots : ApplyCount(s)
    \/ \E s \in Slots : ApplyInsert(s)
    \/ \E s \in Slots : ApplyDecrement(s)
    \/ \E s \in Slots, u \in Students, a \in AppIds, f \in Uploads : UploadBegin(s, u, a, f)
    \/ \E s \in Slots : SubmitUpdate(s)
    \/ \E s \in Slots, failed \in SUBSET Mails : SubmitMail(s, failed)
    \/ \E s \in Slots : SubmitFlash(s)
    \/ \E s \in Slots : Deliver(s)

SweepRace == Init /\ [][SweepRaceNext]_vars

\* the same with the clock advancing and the scheduler firing the sweep
\* every interval: a sweep that can run does run
SweepLive ==
    /\ Init /\ [][SweepRaceNext]_vars
    /\ WF_vars(Tick) /\ WF_vars(SweepFind) /\ WF_vars(SweepUpdate)

\* the users who edit their profiles
Editors == {"s2", "t1"}

\* registrations, profile edits and imports, their requests interleaved
AccountsNext ==
    \/ \E s \in Slots, e \in FormEmails, i \in FormStudentIds : RegisterBegin(s, e, i)
    \/ \E s \in Slots : RegisterInsert(s)
    \/ \E s \in Slots, u \in Editors, e \in FormEmails, pw \in Passwords, otp \in Otps :
          EditProfile(s, u, SeedProfile, e, pw, otp)
    \/ \E s \in Slots, u \in Editors, code \in Otps : VerifyOtp(s, u, code)
    \/ \E s \in Slots, u \in Editors, e \in FormEmails :
          EditTeacherProfile(s, u, SeedProfile, e, "")
    \/ \E e \in FormEmails, i \in FormStudentIds : ImportStudents(e, i)
    \/ \E s \in Slots : Deliver(s)

AccountsSpec == Init /\ [][AccountsNext]_vars


\* the profile form of one student with every name, phone, email and
\* password, the OTP form with right and wrong codes, the teacher's form,
\* and the import that creates the unique indexes
OtpNext ==
    \/ \E s \in Slots, u \in Editors, p \in Profiles, e \in FormEmails,
          pw \in Passwords, otp \in Otps : EditProfile(s, u, p, e, pw, otp)
    \/ \E s \in Slots, u \in Editors, code \in Otps : VerifyOtp(s, u, code)
    \/ \E s \in Slots, e \in FormEmails : EditTeacherProfile(s, "t1", SeedProfile, e, "")
    \/ \E e \in FormEmails, i \in FormStudentIds : ImportStudents(e, i)
    \/ \E s \in Slots : Deliver(s)

OtpSpec == Init /\ [][OtpNext]_vars

\* ================================================================ claims

\* C1: in every reachable state each student has at most one application
\* whose status is pending_resume, submitted or approved
C1_AtMostOneActive ==
    \A u \in Students :
        Cardinality({a \in ExistingApps :
                        /\ apps[a].user_id = u
                        /\ apps[a].status \in {"pending_resume", "submitted", "approved"}})
            <= 1

\* C2: the vacancies of a job created with vacancies >= 0 never go below
\* zero, however Apply and ClearApplications requests interleave
C2_VacanciesNonNegative ==
    \A j \in JobIds : JobExists(j) => jobs[j].vacancies >= 0

\* an accepted Apply reaches its decrement when the vacancies are already 0
C2_DecrementAtZero ==
    \E s \in Slots :
        /\ reqs[s].op = "apply" /\ reqs[s].pc = "decrement"
        /\ JobExists(reqs[s].job)
        /\ jobs[reqs[s].job].vacancies = 0

\* C3: an Apply that finds the open job with vacancies 0 is refused with the
\* no-vacancies message; it inserts no application and leaves the vacancies 0
C3_NoVacancyRefused ==
    [][\A s \in Slots :
          /\ ( /\ reqs[s].op = "apply" /\ reqs[s].pc = "find_job"
               /\ JobExists(reqs[s].job)
               /\ jobs[reqs[s].job].vacancies = 0
               /\ reqs'[s] # reqs[s] )
             => ( /\ reqs'[s].op = "apply" /\ reqs'[s].pc = "count"
                  /\ reqs'[s].vacancies = 0
                  /\ apps' = apps /\ jobs' = jobs )
          /\ ( /\ reqs[s].op = "apply" /\ reqs[s].pc = "count"
               /\ reqs[s].vacancies = 0
               /\ reqs'[s] # reqs[s] )
             => ( /\ reqs'[s] = Done("apply", "student", "no_vacancies")
                  /\ apps' = apps /\ jobs' = jobs )
      ]_vars

\* one student holds the job's only vacancy, and the Apply of another has
\* been refused for lack of vacancies, the vacancies still 0
C3_SecondStudentRefused ==
    \E s \in Slots, j \in JobIds :
        /\ reqs[s] = Done("apply", "student", "no_vacancies")
        /\ JobExists(j) /\ jobs[j].vacancies = 0
        /\ ApplicationsCount(j) = 1
        /\ appCount = 1

\* C4 as stated: every accepted Apply inserts exactly one application and
\* lowers the job's vacancies by exactly one, also when Apply requests for the
\* same job interleave between the capacity check and the guarded decrement
C4_ExactlyOneDecrement ==
    [][\A s \in Slots :
          /\ ( /\ reqs[s].op = "apply" /\ reqs[s].pc = "insert"
               /\ reqs'[s] # reqs[s] )
             => ( /\ ExistingApps' = ExistingApps \cup {appCount + 1}
                  /\ appCount + 1 \notin ExistingApps
                  /\ \A a \in ExistingApps : apps'[a] = apps[a]
                  /\ apps'[appCount + 1].user_id = reqs[s].user
                  /\ apps'[appCount + 1].job_id = reqs[s].job
                  /\ apps'[appCount + 1].status = "pending_resume" )
          /\ ( /\ reqs[s].op = "apply" /\ reqs[s].pc = "decrement"
               /\ reqs'[s] # reqs[s] )
             => ( /\ JobExists(reqs[s].job)
                  /\ jobs'[reqs[s].job].vacancies = jobs[reqs[s].job].vacancies - 1 )
      ]_vars

\* C5: an Apply refused because the caller is no student, the job id does not
\* resolve to an open job, or the student already has an active application,
\* leaves applications and jobs as they were, at every step up to the refusal
C5_RefusedApplyChangesNothing ==
    [][\A s \in Slots :
          /\ ( /\ reqs'[s] # reqs[s]
               /\ reqs'[s].op = "done" /\ reqs'[s].of = "apply"
               /\ reqs'[s].msg \in {"only_students", "already_active", "job_unavailable"} )
             => (apps' = apps /\ jobs' = jobs)
          /\ ( /\ reqs'[s] # reqs[s]
               /\ reqs'[s].op = "apply"
               /\ reqs'[s].pc \in {"find_job", "count", "insert"} )
             => (apps' = apps /\ jobs' = jobs)
      ]_vars

\* a student with an active application has applied again and been refused,
\* on a job that has vacancies left
C5_RefusedWhileActive ==
    \E s \in Slots, j \in JobIds :
        /\ reqs[s] = Done("apply", "student", "already_active")
        /\ JobExists(j) /\ jobs[j].vacancies > 0
        /\ HasActiveApplication("s1")

C8_CorrectionsThenResubmit ==
    [][ /\ \A s \in Slots, u \in Teachers, a \in AppIds, t \in FeedbackTexts :
             (apps[a] # NoApp /\ AssessStudents(s, u, a, "corrections_needed", t))
             => ( /\ apps'[a].status = "corrections_needed"
                  /\ apps'[a].teacher_feedback = Strip(t) )
        /\ \A s \in Slots :
             ( /\ reqs[s].op \in {"upload", "reupload"}
               /\ apps[reqs[s].app] # NoApp
               /\ apps[reqs[s].app].status = "corrections_needed"
               /\ reqs'[s] # reqs[s] )
             => ( /\ apps'[reqs[s].app].status = "submitted"
                  /\ apps'[reqs[s].app].teacher_feedback = "" )
      ]_vars

\* C9: a status-update request changes an application only when its caller
\* is a teacher; one made by a logged-in student, through assess_students or
\* update_application_status, leaves every application as it was
C9_OnlyTeacherAssesses ==
    [][\A s \in Slots :
          ( /\ reqs'[s] # reqs[s]
            /\ \/ reqs'[s].op = "update_status"
               \/ reqs'[s].op = "done" /\ reqs'[s].of \in {"assess", "update_status"}
            /\ apps' # apps )
          => reqs'[s].role = "teacher"
      ]_vars

\* C10: the status of every application is one of the six of the
\* specification, and an Assess whose decision is none of approved, rejected,
\* corrections_needed changes no application
C10_StatusDomain ==
    [][ /\ \A a \in AppIds :
             apps'[a] # NoApp
             => apps'[a].status \in {"pending_resume", "submitted", "approved",
                                     "rejected", "corrections_needed", "rejected_auto"}
        /\ \A s \in Slots, u \in Users, a \in AppIds, t \in FeedbackTexts,
              d \in Decisions \ {"approved", "rejected", "corrections_needed"} :
             AssessStudents(s, u, a, d, t) => apps' = apps
      ]_vars

\* C11: an application's status becomes approved, rejected or
\* corrections_needed only when it was submitted: Assess never moves an
\* application that is in any other status
C11_AssessOnlyFromSubmitted ==
    [][\A a \in AppIds :
          ( /\ apps[a] # NoApp /\ apps'[a] # NoApp
            /\ apps'[a].status # apps[a].status
            /\ apps'[a].status \in {"approved", "rejected", "corrections_needed"} )
          => apps[a].status = "submitted"
      ]_vars

\* C14: the sweep moves an application to rejected_auto only from
\* pending_resume; it never changes one that is approved, rejected,
\* corrections_needed or submitted
C14_SweepOnlyFromPending ==
    [][(sweep.pc = "update" /\ sweep' # sweep)
          => \A a \in AppIds :
                apps'[a] # apps[a]
                => (apps[a].status = "pending_resume" /\ apps'[a].status = "rejected_auto")
      ]_vars

C13_NoResumeRejectedAuto ==
    \A a \in AppIds :
        (apps[a] # NoApp /\ apps[a].resume_filename # Absent)
        => apps[a].status # "rejected_auto"

\* C15: a clear deletes every referenced application that exists and no
\* other, and raises each job's vacancies by exactly the number of that job's
\* applications it deleted, also with ids that no longer exist and with two
\* clears running at the same time on overlapping ids
C15_ClearAddsWhatItDeleted ==
    [][\A s \in Slots :
          /\ ( /\ reqs[s].op = "clear" /\ reqs[s].pc = "delete"
               /\ reqs'[s] # reqs[s] )
             => LET gone == reqs[s].ids \cap ExistingApps
                    t    == reqs[s].tally
                IN /\ \A a \in AppIds :
                         apps'[a] = IF a \in gone THEN NoApp ELSE apps[a]
                   /\ \A j \in JobIds :
                         LET at == {i \in 1..Len(t) : t[i].job = j}
                             n  == Cardinality({a \in gone : apps[a].job_id = j})
                         IN IF at = {} THEN n = 0
                            ELSE Cardinality(at) = 1 /\ \A i \in at : t[i].count = n
          /\ ( /\ reqs[s].op = "clear" /\ reqs[s].pc = "inc"
               /\ reqs'[s] # reqs[s] )
             => LET h == Head(reqs[s].tally)
                IN /\ apps' = apps
                   /\ JobExists(h.job)
                      => jobs' = [jobs EXCEPT ![h.job].vacancies = @ + h.count]
      ]_vars

\* the vacancies of job j plus the applications that hold one of its slots,
\* counting a slot taken by an insert whose decrement is still to come as not
\* yet taken, and one freed by a delete whose increment is still to come as
\* already freed
SlotsAndHolders(j) ==
    jobs[j].vacancies
    + Cardinality({a \in ExistingApps : apps[a].job_id = j})
    - Cardinality({s \in Slots : /\ reqs[s].op = "apply"
                                 /\ reqs[s].pc = "decrement"
                                 /\ reqs[s].job = j})
    + ( IF \E s \in Slots : /\ reqs[s].op = "clear" /\ reqs[s].pc = "inc"
                            /\ \E i \in 1..Len(reqs[s].tally) : reqs[s].tally[i].job = j
        THEN LET s == CHOOSE s \in Slots :
                         /\ reqs[s].op = "clear" /\ reqs[s].pc = "inc"
                         /\ \E i \in 1..Len(reqs[s].tally) : reqs[s].tally[i].job = j
                 i == CHOOSE i \in 1..Len(reqs[s].tally) : reqs[s].tally[i].job = j
             IN reqs[s].tally[i].count
        ELSE 0 )

\* C16: clearing undoes Apply: with requests served one after another, no
\* step other than a job edit changes the sum of a job's vacancies and its
\* applications, whatever SubmitResume, Assess or sweep comes in between, and
\* a clear removes exactly the applications it names; so an Apply followed by
\* the clear of its application leaves the vacancies and the applications as
\* they were before the Apply
C16_ClearUndoesApply ==
    [][ /\ \A j \in JobIds :
             ( /\ JobExists(j) /\ JobExists(j)'
               /\ ~ \E s \in Slots : /\ reqs'[s] # reqs[s]
                                     /\ reqs'[s].op = "done"
                                     /\ reqs'[s].of = "edit_job" )
             => SlotsAndHolders(j)' = SlotsAndHolders(j)
        /\ \A s \in Slots :
             (reqs[s].op = "clear" /\ reqs[s].pc = "delete" /\ reqs'[s] # reqs[s])
             => \A a \in AppIds :
                   apps'[a] = IF a \in reqs[s].ids THEN NoApp ELSE apps[a]
      ]_vars

\* an application has been created and cleared again: none is left and the
\* job is back at the vacancies it was created with
C16_AppliedAndCleared ==
    \E s \in Slots :
        /\ reqs[s] = Done("clear", "teacher", "cleared")
        /\ appCount = 1
        /\ ExistingApps = {}
        /\ JobExists(1) /\ jobs[1].vacancies = MaxVacancies

\* C17: an application is removed only by a teacher's clear: every step
\* after which an application that existed is gone is the delete step of a
\* clear request made by a teacher that names the application; a clear
\* requested by a student is refused and changes nothing
C17_OnlyTeacherClearDeletes ==
    [][ /\ \A a \in AppIds :
             (apps[a] # NoApp /\ apps'[a] = NoApp)
             => \E s \in Slots : /\ reqs[s].op = "clear" /\ reqs[s].pc = "delete"
                                 /\ reqs[s].role = "teacher"
                                 /\ a \in reqs[s].ids
                                 /\ reqs'[s] # reqs[s]
        /\ \A s \in Slots :
             ( /\ reqs'[s] # reqs[s]
               /\ \/ reqs[s].op = "clear" /\ reqs[s].role = "student"
                  \/ /\ reqs'[s].op = "done" /\ reqs'[s].of = "clear"
                     /\ reqs'[s].role = "student" )
             => (apps' = apps /\ jobs' = jobs)
      ]_vars

\* a student's clear request has been refused while an application exists
C17_StudentClearRefused ==
    \E s \in Slots :
        /\ reqs[s] = Done("clear", "student", "teacher_required")
        /\ ExistingApps # {}

\* C18: a failing notification neither blocks nor reverses the state change:
\* the update is written before any mail goes out, no step of a request
\* from its sends on changes an application or a job, and when the request
\* returns the application holds the status, the file names and the
\* feedback the request wrote, whichever of its sends failed
C18_MailFailureKeepsUpdate ==
    [][\A s \in Slots :
          /\ ( /\ reqs[s].op \in {"upload", "reupload", "upload_resume", "update_status"}
               /\ reqs[s].pc \in {"mail", "flash"}
               /\ reqs'[s] # reqs[s] )
             => (apps' = apps /\ jobs' = jobs)
          /\ ( /\ reqs[s].op \in {"upload", "reupload", "upload_resume"}
               /\ reqs[s].pc = "flash"
               /\ reqs'[s] # reqs[s] )
             => /\ reqs'[s] = Done(reqs[s].op, reqs[s].role, "submitted")
                /\ apps'[reqs[s].app] # NoApp
                /\ apps'[reqs[s].app].status = "submitted"
                /\ apps'[reqs[s].app].resume_filename = reqs[s].files[1]
                /\ apps'[reqs[s].app].photo_filename = reqs[s].files[2]
                /\ reqs[s].op # "upload_resume"
                   => apps'[reqs[s].app].teacher_feedback = ""
          /\ ( /\ reqs[s].op = "update_status"
               /\ reqs[s].pc = "flash"
               /\ reqs'[s] # reqs[s] )
             => /\ reqs'[s] = Done("update_status", reqs[s].role, "updated")
                /\ apps'[reqs[s].app] # NoApp
                /\ apps'[reqs[s].app].status = reqs[s].status
                /\ apps'[reqs[s].app].teacher_feedback = reqs[s].feedback
      ]_vars

\* both mails of an upload have failed, and the application is submitted
\* with the files of the request
C18_UploadMailsFailed ==
    \E s \in Slots :
        /\ reqs[s].op = "upload" /\ reqs[s].pc = "flash"
        /\ reqs[s].failed = {"admin_resume", "confirmation"}
        /\ apps[reqs[s].app] # NoApp
        /\ apps[reqs[s].app].status = "submitted"
        /\ apps[reqs[s].app].resume_filename = reqs[s].files[1]

\* C19: in every reachable state no two user documents share an email and
\* no two share a student ID, under every interleaving of registrations,
\* student profile edits with or without OTP, and teacher profile edits
C19_UniqueEmailAndStudentId ==
    \A u, v \in ExistingUsers :
        u # v => /\ users[u].email # users[v].email
                 /\ (users[u].student_id # Absent
                       => users[u].student_id # users[v].student_id)

\* C20: vacancies is the number of open slots that remain: with the
\* applications of distinct students served one after another and nothing
\* else touching the job, an application is refused for capacity only when
\* the job has no vacancy left, so a job created with V vacancies accepts V
\* students and the (V+1)-th is the first refused
C20_RefusedOnlyWhenFull ==
    [][\A s \in Slots :
          ( /\ reqs[s].op = "apply"
            /\ reqs'[s] = Done("apply", "student", "no_vacancies") )
          => jobs[reqs[s].job].vacancies = 0
      ]_vars

\* C21: under every interleaving of Apply requests, the students holding an
\* application in pending_resume, submitted or approved for a job are never
\* more than the vacancies the job form was saved with (no job is edited in
\* this specification, so that is the value the job was created with)
C21_ActiveWithinCreated ==
    \A j \in JobIds :
        JobExists(j)
        => Cardinality({apps[a].user_id :
                          a \in {b \in ExistingApps : /\ apps[b].job_id = j
                                                      /\ apps[b].status \in ActiveStatuses}})
              <= posted[j]

\* C22: under every interleaving of Apply and clear requests, a job's
\* vacancies never exceed the vacancies the job form was saved with (no job
\* is edited in this specification, so that is the value it was created with)
C22_VacanciesWithinCreated ==
    \A j \in JobIds : JobExists(j) => jobs[j].vacancies <= posted[j]

\* C23: every application's resume_deadline is its applied_at plus 48
\* hours, and an application that is rejected_auto was applied more than 48
\* hours ago: the sweep never rejects at or before the deadline
C23_NotRejectedBeforeDeadline ==
    \A a \in ExistingApps :
        /\ apps[a].resume_deadline = apps[a].applied_at + 48
        /\ apps[a].status = "rejected_auto" => now > apps[a].applied_at + 48

\* the sweep has rejected an application that never had a resume, after
\* its deadline
C23_SweptAfterDeadline ==
    \E a \in ExistingApps :
        /\ apps[a].status = "rejected_auto"
        /\ apps[a].resume_filename = Absent
        /\ apps[a].resume_deadline < now

\* C24: with the clock advancing and the scheduler firing the sweep, an
\* application in pending_resume with no resume filename whose deadline has
\* passed does not stay so: eventually it has been submitted, assessed or
\* rejected_auto, or it has been cleared
C24_OverdueLeavesPending ==
    \A a \in AppIds :
        ( /\ apps[a] # NoApp
          /\ apps[a].status = "pending_resume"
          /\ apps[a].resume_filename = Absent
          /\ apps[a].resume_deadline < now )
        ~> (apps[a] = NoApp \/ apps[a].status # "pending_resume")

\* the sweep has found an overdue application that is still pending
C24_OverdueFound ==
    sweep.pc = "update"
    /\ \E a \in sweep.todo : /\ apps[a] # NoApp
                             /\ apps[a].status = "pending_resume"
                             /\ apps[a].resume_deadline < now

\* C25: the upload deadline is enforced on submission: an application moves
\* from pending_resume to submitted only while the current time is not later
\* than its resume_deadline
C25_SubmittedWithinDeadline ==
    [][\A a \in AppIds :
          ( /\ apps[a] # NoApp /\ apps'[a] # NoApp
            /\ apps[a].status = "pending_resume"
            /\ apps'[a].status = "submitted" )
          => now <= apps[a].resume_deadline
      ]_vars

\* C26: on every submission path a request in which a file is missing, has
\* an empty name or has an extension outside pdf, doc, docx for the resume
\* or jpg, jpeg, png for the photo leaves every application unchanged: a
\* submission that writes carries two files with allowed extensions
C26_BadFilesChangeNothing ==
    [][\A s \in Slots :
          ( /\ reqs[s].op \in {"upload", "reupload", "upload_resume"}
            /\ reqs'[s] # reqs[s]
            /\ apps' # apps )
          => /\ reqs[s].files[1] \in {"pdf", "doc", "docx"}
             /\ reqs[s].files[2] \in {"jpg", "jpeg", "png"}
      ]_vars

\* C27: the sweep changes nothing but the status of the applications its
\* find matched, those with no resume filename and a deadline before the
\* current time: its steps leave every job with its vacancies, every user
\* and every other application as they are, and a matched application keeps
\* its file names, feedback, timestamps, owner and job
C27_SweepWritesStatusOnly ==
    [][(sweep' # sweep)
          => /\ jobs' = jobs /\ jobCount' = jobCount
             /\ users' = users
             /\ sweep.pc = "idle"
                => /\ apps' = apps
                   /\ sweep'.todo = {a \in AppIds : /\ apps[a] # NoApp
                                                    /\ apps[a].resume_filename = Absent
                                                    /\ apps[a].resume_deadline < now}
             /\ sweep.pc = "update"
                => \A a \in AppIds :
                      \/ apps'[a] = apps[a]
                      \/ /\ a \in sweep.todo
                         /\ apps[a] # NoApp
                         /\ apps'[a] = [apps[a] EXCEPT !.status = "rejected_auto"]
      ]_vars

\* the sweep has rejected an application of a job that has no vacancy left:
\* the application still holds the slot it took
C27_RejectedKeepsSlot ==
    \E a \in ExistingApps :
        /\ sweep.pc = "idle"
        /\ apps[a].status = "rejected_auto"
        /\ JobExists(apps[a].job_id)
        /\ jobs[apps[a].job_id].vacancies = 0
        /\ posted[apps[a].job_id] = 1

\* C28: no lifecycle operation changes a job's status flag: every step
\* leaves the status of a job that exists before and after it as it was,
\* and a job whose vacancies are 0 has status open
C28_JobStatusUntouched ==
    [][\A j \in JobIds :
          (JobExists(j) /\ JobExists(j)')
          => /\ jobs'[j].status = jobs[j].status
             /\ jobs'[j].vacancies = 0 => jobs'[j].status = "open"
      ]_vars

\* the last vacancy of a job has been taken by an application, and the job
\* is open
C28_FullJobStillOpen ==
    \E a \in ExistingApps :
        /\ JobExists(apps[a].job_id)
        /\ jobs[apps[a].job_id].vacancies = 0
        /\ jobs[apps[a].job_id].status = "open"
        /\ \E s \in Slots : reqs[s] = Done("apply", "student", "applied")

\* C29: in every reachable state the job_id of every application refers to
\* an existing job document
C29_ApplicationsReferToJobs ==
    \A a \in ExistingApps : JobExists(apps[a].job_id)

\* a step in which the OTP form of user u, posted with code c, is answered
OtpAnswered(u, c) ==
    \E s \in Slots : /\ reqs[s] = Idle
                     /\ reqs'[s].op = "done"
                     /\ reqs'[s].of = "verify_otp"
                     /\ reqs'[s].user = u
                     /\ reqs'[s].otp = c

\* the document of u after its pending profile is applied
PendingApplied(u) ==
    LET pending == sessions[u].pending_profile
    IN [users[u] EXCEPT !.name = pending.name, !.email = pending.email,
                        !.phone = pending.phone,
                        !.pw_hash = HashPw(pending.password)]

\* C30, first part: while a student's session awaits an OTP, the stored
\* name, email, phone and password hash of that student change only in a
\* step that answers an OTP form posted with the issued code; and a form
\* posted with another code leaves every user document and every session
\* as they were.
C30_OnlyMatchingOtpWrites ==
    [][\A u \in Students :
          sessions[u].awaiting_otp =>
             /\ users'[u] # users[u] => OtpAnswered(u, sessions[u].otp_code)
             /\ \A c \in Otps \ {sessions[u].otp_code} :
                   OtpAnswered(u, c) => users' = users /\ sessions' = sessions]_vars

\* C30 (student profile edit with OTP): once awaiting_otp is set, the
\* stored name, email, phone and password hash change only in answer to an
\* OTP equal to the issued code, a wrong OTP leaves the user document and
\* the pending session state unchanged, and a correct OTP applies the
\* pending values and removes awaiting_otp, pending_profile and otp_code
\* from the session.
C30_OtpGatesProfile ==
    [][\A u \in Students :
          sessions[u].awaiting_otp =>
             /\ users'[u] # users[u] => OtpAnswered(u, sessions[u].otp_code)
             /\ \A c \in Otps \ {sessions[u].otp_code} :
                   OtpAnswered(u, c) => users' = users /\ sessions' = sessions
             /\ OtpAnswered(u, sessions[u].otp_code) =>
                   /\ users'[u] = PendingApplied(u)
                   /\ sessions'[u] = NoSession]_vars

\* a wrong code was answered while the pending profile differs from the
\* stored one, and a right one was applied
C30_WrongOtpAnswered ==
    \E s \in Slots, u \in Students :
       /\ reqs[s].op = "done" /\ reqs[s].of = "verify_otp"
       /\ reqs[s].user = u /\ reqs[s].msg = "incorrect_otp"
       /\ sessions[u].awaiting_otp
       /\ sessions[u].otp_code # reqs[s].otp
       /\ PendingApplied(u) # users[u]

C30_RightOtpApplied ==
    \E s \in Slots, u \in Students :
       /\ reqs[s].op = "done" /\ reqs[s].of = "verify_otp"
       /\ reqs[s].user = u /\ reqs[s].msg = "updated"
       /\ users[u].pw_hash = HashPw("secret12")
       /\ users[u].name = "Bea"
       /\ sessions[u] = NoSession

\* a right code met a unique index: nothing was applied and the session
\* still awaits
C30_RightOtpRefused ==
    \E s \in Slots, u \in Students :
       /\ reqs[s].op = "done" /\ reqs[s].of = "verify_otp"
       /\ reqs[s].user = u /\ reqs[s].msg = "server_error"
       /\ sessions[u].awaiting_otp
       /\ sessions[u].otp_code = reqs[s].otp
       /\ PendingApplied(u) # users[u]

====
